---- MODULE Spec2Model ----
(***************************************************************************)
(* Model of the mind-map plugin: the Markdown outline parser               *)
(* (_parse_markdown_to_tree, identical in both tools), the canvas sizing   *)
(* of _generate_png_mindmap and the two recursive layouts                  *)
(* (layout_dynamic_center_mindmap, layout_dynamic_horizontal_mindmap).     *)
(*                                                                         *)
(* Text is a sequence of one-character strings; a document is a sequence   *)
(* of lines.  Real numbers are fixed-point integers in units of 1/Scale.   *)
(***************************************************************************)
EXTENDS Integers, Sequences, FiniteSets, TLC

VARIABLES
    tool,               \* "center" or "horizontal": the tool class invoked
    lines,              \* markdown_text.strip().split('\n')
    li,                 \* index of the next line of the for loop
    heap,               \* the node dicts created so far, by identity (index)
    nodes,              \* top-level nodes (ids), in document order
    node_stack,         \* stack of open nodes (ids), top is the last entry
    last_header_level,  \* level of the last header seen, 0 after a reset
    pc,                 \* position: "parse", "parsed", "layout", "done" in the
                        \* parser and the layout, the others in _invoke
    tree_data,          \* id of the root returned by the parser (0: none yet)
    fig,                \* canvas: width, height and axis limits
    frames,             \* call stack of the recursive layout function
    labels,             \* draw_text_label calls, in call order
    connectors,         \* curves plotted by draw_curved_branch_line
    all_positions,      \* the value returned by the outermost radial call
    messages,           \* the messages _invoke has yielded, in order
    temp_files,         \* which of temp_dir and temp_output_path exist on disk
    success,            \* the value _generate_png_mindmap returned
    display_filename,   \* the file name of the image, carried by the blob
    threads,            \* concurrent calls of _generate_png_mindmap
    Gcf,                \* pyplot's registry of open figures, the last is current
    output_files,       \* what plt.savefig wrote for each concurrent call
    returned            \* the trees earlier calls of the parser returned for
                        \* the same text, each with the tool that was called

vars == <<tool, lines, li, heap, nodes, node_stack, last_header_level, pc,
          tree_data, fig, frames, labels, connectors, all_positions,
          messages, temp_files, success, display_filename, threads, Gcf,
          output_files, returned>>

parseVars == <<lines, li, heap, nodes, node_stack, last_header_level>>
layoutVars == <<fig, frames, labels, connectors, all_positions>>
invokeVars == <<messages, temp_files, success, display_filename>>
pyplotVars == <<threads, Gcf, output_files>>
replayVars == <<returned>>

----------------------------------------------------------------------------
(* Bounds of the model *)

\* catalogue documents have at most MaxLines lines
MaxLines == 3
\* nested-bullet documents have one heading and at most MaxNest bullets
MaxNest == 5
\* the flat document has one heading and WideCount bullets
WideCount == 40
\* the deep document has one heading and DeepLevels nested bullets
DeepLevels == 10
\* number of calls of _generate_png_mindmap running at the same time
NumThreads == 2
\* the heading of a deep document has 1 to MaxHeader '#' characters
MaxHeader == 3
\* the parser is called again on the same text at most MaxReparse times
MaxReparse == 1

----------------------------------------------------------------------------
(* Strings *)

\* the backquote is written "~" here (TLA+ strings cannot hold one); Fence is
\* the code-fence prefix of three backquotes
Backquote == "~"
Fence == <<Backquote, Backquote, Backquote>>

IsSpace(c) == c = " "
IsDigit(c) == c \in {"0", "1", "2", "3", "4", "5", "6", "7", "8", "9"}
IsBullet(c) == c \in {"-", "*", "+"}

RECURSIVE LStrip(_)
LStrip(s) == IF s # <<>> /\ IsSpace(Head(s)) THEN LStrip(Tail(s)) ELSE s

RECURSIVE RStrip(_)
RStrip(s) ==
    IF s # <<>> /\ IsSpace(s[Len(s)]) THEN RStrip(SubSeq(s, 1, Len(s) - 1)) ELSE s

Strip(s) == LStrip(RStrip(s))

StartsWith(s, p) == Len(s) >= Len(p) /\ SubSeq(s, 1, Len(p)) = p

Drop(s, n) == SubSeq(s, n + 1, Len(s))

\* number of leading '#' characters (the for/break loop of the header branch)
RECURSIVE HeaderCount(_)
HeaderCount(s) ==
    IF s # <<>> /\ Head(s) = "#" THEN 1 + HeaderCount(Tail(s)) ELSE 0

\* len(line) - len(line.lstrip())
LeadingSpaces(s) == Len(s) - Len(LStrip(s))

RECURSIVE DigitRun(_)
DigitRun(s) == IF s # <<>> /\ IsDigit(Head(s)) THEN 1 + DigitRun(Tail(s)) ELSE 0

\* re.match(r'^\s*\d+\.\s+', line)
MatchOrdered(s) ==
    LET a == LStrip(s)
        d == DigitRun(a)
        b == Drop(a, d)
    IN  /\ d >= 1
        /\ Len(b) >= 2
        /\ b[1] = "."
        /\ IsSpace(b[2])

\* re.sub(r'^\s*\d+\.\s*', '', line) on a line that matches
StripOrdered(s) ==
    LET a == LStrip(s)
        d == DigitRun(a)
    IN  IF d >= 1 /\ Len(a) > d /\ a[d + 1] = "."
        THEN LStrip(Drop(a, d + 1))
        ELSE s

\* re.match(r'^\s*[-\*\+]\s+', line)
MatchBullet(s) ==
    LET a == LStrip(s)
    IN  /\ Len(a) >= 2
        /\ IsBullet(a[1])
        /\ IsSpace(a[2])

\* re.sub(r'^\s*[-\*\+]\s*', '', line)
StripBullet(s) ==
    LET a == LStrip(s)
    IN  IF a # <<>> /\ IsBullet(a[1]) THEN LStrip(Tail(a)) ELSE s

\* smallest index i >= from at which pattern p occurs in s, 0 when none
RECURSIVE FindFrom(_, _, _)
FindFrom(s, p, from) ==
    IF from + Len(p) - 1 > Len(s) THEN 0
    ELSE IF SubSeq(s, from, from + Len(p) - 1) = p THEN from
    ELSE FindFrom(s, p, from + 1)

\* re.sub of  m(.*?)m  by the group, m a literal marker: leftmost, non-greedy,
\* non-overlapping, scanning from position from
RECURSIVE RemoveWrapped(_, _, _)
RemoveWrapped(s, m, from) ==
    LET i == FindFrom(s, m, from)
        j == IF i = 0 THEN 0 ELSE FindFrom(s, m, i + Len(m))
    IN  IF i = 0 \/ j = 0 THEN s
        ELSE LET inner == SubSeq(s, i + Len(m), j - 1)
                 head  == SubSeq(s, 1, i - 1) \o inner
             IN  RemoveWrapped(head \o Drop(s, j + Len(m) - 1), m, Len(head) + 1)

\* re.sub(r'\*\*(.*?)\*\*:\s*', r'\1: ', text)
RECURSIVE CollapseBoldColon(_, _)
CollapseBoldColon(s, from) ==
    LET i == FindFrom(s, <<"*", "*">>, from)
        j == IF i = 0 THEN 0 ELSE FindFrom(s, <<"*", "*", ":">>, i + 2)
    IN  IF i = 0 \/ j = 0 THEN s
        ELSE LET head == SubSeq(s, 1, i - 1) \o SubSeq(s, i + 2, j - 1) \o <<":", " ">>
             IN  CollapseBoldColon(head \o LStrip(Drop(s, j + 2)), Len(head) + 1)

\* text.replace(U+300A, '').replace(U+300B, ''): the two CJK angle brackets
\* are written "<" and ">" here
LeftBracket == "<"
RightBracket == ">"
RemoveBrackets(s) == SelectSeq(s, LAMBDA c : c \notin {LeftBracket, RightBracket})

\* _clean_markdown_text
CleanMarkdownText(text) ==
    LET t1 == RemoveWrapped(text, <<"*", "*">>, 1)
        t2 == RemoveWrapped(t1, <<"*">>, 1)
        t3 == RemoveBrackets(t2)
        t4 == CollapseBoldColon(t3, 1)
    IN  Strip(t4)

----------------------------------------------------------------------------
(* Input documents *)

\* markdown_text.strip().split('\n') for a text given as its raw lines:
\* leading and trailing whitespace-only lines disappear, the first line loses
\* its leading and the last its trailing whitespace; '' splits into ['']
RECURSIVE DropBlankHead(_)
DropBlankHead(d) ==
    IF d # <<>> /\ Strip(Head(d)) = <<>> THEN DropBlankHead(Tail(d)) ELSE d

RECURSIVE DropBlankTail(_)
DropBlankTail(d) ==
    IF d # <<>> /\ Strip(d[Len(d)]) = <<>>
    THEN DropBlankTail(SubSeq(d, 1, Len(d) - 1))
    ELSE d

StripSplit(raw) ==
    LET d == DropBlankTail(DropBlankHead(raw))
    IN  IF d = <<>> THEN << <<>> >>
        ELSE LET f == [d EXCEPT ![1] = LStrip(d[1])]
             IN  [f EXCEPT ![Len(f)] = RStrip(f[Len(f)])]

Spaces(n) == [i \in 1..n |-> " "]

CatalogLines == {
    <<"#", " ", "a">>,
    <<"#", "#", " ", "b">>,
    <<"#", "#">>,
    <<"-", " ", "c">>,
    <<" ", " ", "*", " ", "d">>,
    <<" ", " ", " ", " ", " ", "+", " ", "e">>,
    <<"1", ".", " ", "f">>,
    <<" ", " ", "2", ".", " ", "g">>,
    <<"-", " ", "*", "*", "h", "*", "*", ":", " ", "i", " ">>,
    <<"-", " ", "*", "*", "*", "*">>,
    <<"t">>,
    <<>>,
    Fence
}

CatalogDocs(n) == UNION {[1..k -> CatalogLines] : k \in 0..n}

HeadingLine == <<"#", " ", "r">>
BulletLine(indent) == Spaces(indent) \o <<"-", " ", "x">>

\* indentation steps of the bullets: the first is 0 and each next one is at
\* most one step deeper than the one before
RECURSIVE NestShapesOfLen(_)
NestShapesOfLen(k) ==
    IF k = 0 THEN {<<>>}
    ELSE IF k = 1 THEN {<<0>>}
    ELSE {Append(e[1], e[2]) :
             e \in {q \in NestShapesOfLen(k - 1) \X (0..(k - 1)) : q[2] <= q[1][k - 1] + 1}}

NestShapes(n) == UNION {NestShapesOfLen(k) : k \in 0..n}

NestedDocs(n) ==
    {<<HeadingLine>> \o [i \in 1..Len(s) |-> BulletLine(2 * s[i])] : s \in NestShapes(n)}

\* one heading and n bullets nested by successive 2-space steps
ChainDoc(n) == <<HeadingLine>> \o [i \in 1..n |-> BulletLine(2 * (i - 1))]

\* a heading of level h, then n bullets nested by successive 2-space steps
HeadingOfLevel(h) == [i \in 1..h |-> "#"] \o <<" ", "r">>
ChainDocUnder(h, n) == <<HeadingOfLevel(h)>> \o [i \in 1..n |-> BulletLine(2 * (i - 1))]

\* the chain of n bullets, then one more bullet k steps deep: a second child
\* for the k-th bullet of the chain
ForkedChainDoc(n, k) == ChainDoc(n) \o <<BulletLine(2 * k)>>

\* one heading and n unindented bullets, each with one nested bullet
BranchyDoc(n) ==
    <<HeadingLine>> \o [i \in 1..(2 * n) |-> BulletLine(IF i % 2 = 1 THEN 0 ELSE 2)]

\* one heading and n unindented bullets
FlatDoc(n) == <<HeadingLine>> \o [i \in 1..n |-> BulletLine(0)]

----------------------------------------------------------------------------
(* The parser: _parse_markdown_to_tree *)

MindMapContent == <<"M", "i", "n", "d", " ", "M", "a", "p">>

Node(content, level, children) ==
    [content |-> content, level |-> level, children |-> children]

\* which branch of the if/elif chain a (right-stripped) line takes
LineKind(line) ==
    IF line = <<>> \/ StartsWith(line, Fence) THEN "skip"
    ELSE IF StartsWith(line, <<"#">>) THEN "header"
    ELSE IF MatchOrdered(line) THEN "ordered"
    ELSE IF MatchBullet(line) THEN "bullet"
    ELSE "other"

\* level = leading_spaces // 2 + 2
IndentLevel(line) == (LeadingSpaces(line) \div 2) + 2

\* the level the branch assigns
LineLevel(line, lhl) ==
    CASE LineKind(line) = "header"  -> HeaderCount(line)
      [] LineKind(line) = "ordered" -> IndentLevel(line)
      [] LineKind(line) = "bullet"  ->
            IF LeadingSpaces(line) = 0 /\ lhl > 0 THEN lhl + 1 ELSE IndentLevel(line)
      [] OTHER -> 0

\* the content the branch extracts
LineContent(line) ==
    CASE LineKind(line) = "header"  -> Strip(Drop(line, HeaderCount(line)))
      [] LineKind(line) = "ordered" -> CleanMarkdownText(StripOrdered(line))
      [] LineKind(line) = "bullet"  -> CleanMarkdownText(StripBullet(line))
      [] OTHER -> <<>>

\* while node_stack and node_stack[-1]['level'] >= level: node_stack.pop()
RECURSIVE PopStackLe(_, _, _)
PopStackLe(h, stack, level) ==
    IF stack # <<>> /\ h[stack[Len(stack)]].level > level
    THEN PopStackLe(h, SubSeq(stack, 1, Len(stack) - 1), level)
    ELSE stack

PopStackOnce(h, stack, level) ==
    IF stack # <<>> /\ h[stack[Len(stack)]].level >= level
    THEN SubSeq(stack, 1, Len(stack) - 1)
    ELSE stack

RECURSIVE PopStack(_, _, _)
PopStack(h, stack, level) ==
    IF stack # <<>> /\ h[stack[Len(stack)]].level >= level
    THEN PopStack(h, SubSeq(stack, 1, Len(stack) - 1), level)
    ELSE stack

\* the heap after the new node (id Len(h) + 1) is appended to its parent's
\* children, or unchanged apart from the new node when the stack is empty
AttachNode(h, stack, node) ==
    LET id == Len(h) + 1
        h1 == Append(h, node)
    IN  IF stack # <<>>
        THEN [h1 EXCEPT ![stack[Len(stack)]].children = Append(@, id)]
        ELSE h1

\* the "Handle results" tail: the heap and the id of the returned root
HandleResultsAlwaysWrap(h, tops) ==
    [heap |-> Append(h, Node(MindMapContent, 1, tops)), root |-> Len(h) + 1]

HandleResults(h, tops) ==
    IF tops = <<>>
    THEN [heap |-> Append(h, Node(MindMapContent, 1, <<>>)), root |-> Len(h) + 1]
    ELSE IF Len(tops) = 1
    THEN [heap |-> h, root |-> tops[1]]
    ELSE [heap |-> Append(h, Node(MindMapContent, 1, tops)), root |-> Len(h) + 1]

CurLine == RStrip(lines[li])

\* continue: a blank or fence line, an unrecognised line, or empty content
CreatesNoNode(line) ==
    \/ LineKind(line) \in {"skip", "other"}
    \/ LineContent(line) = <<>>

\* a line that creates no node: blank, fence, unrecognised, or empty content.
\* A header line sets last_header_level before its content is looked at.
SkipLine ==
    /\ pc = "parse"
    /\ li <= Len(lines)
    /\ CreatesNoNode(CurLine)
    /\ last_header_level' =
           IF LineKind(CurLine) = "header" THEN HeaderCount(CurLine)
           ELSE last_header_level
    /\ li' = li + 1
    /\ UNCHANGED <<tool, lines, heap, nodes, node_stack, pc, tree_data>>
    /\ UNCHANGED layoutVars
    /\ UNCHANGED <<invokeVars, pyplotVars, replayVars>>

\* a line that creates a node
AddLine(kind) ==
    /\ pc = "parse"
    /\ li <= Len(lines)
    /\ LineKind(CurLine) = kind
    /\ LineContent(CurLine) # <<>>
    /\ LET level == LineLevel(CurLine, last_header_level)
           node  == Node(LineContent(CurLine), level, <<>>)
           stack == PopStack(heap, node_stack, level)
       IN  /\ last_header_level' =
                  CASE kind = "header"  -> level
                    [] kind = "ordered" -> 0
                    [] OTHER -> last_header_level
           /\ heap' = AttachNode(heap, stack, node)
           /\ nodes' = IF stack = <<>> THEN Append(nodes, Len(heap) + 1) ELSE nodes
           /\ node_stack' = Append(stack, Len(heap) + 1)
    /\ li' = li + 1
    /\ UNCHANGED <<tool, lines, pc, tree_data>>
    /\ UNCHANGED layoutVars
    /\ UNCHANGED <<invokeVars, pyplotVars, replayVars>>

HeaderLine == AddLine("header")
OrderedLine == AddLine("ordered")
BulletItemLine == AddLine("bullet")

\* the end of the loop: the returned tree
ReturnTree ==
    /\ pc = "parse"
    /\ li > Len(lines)
    /\ LET r == HandleResults(heap, nodes)
       IN  /\ heap' = r.heap
           /\ tree_data' = r.root
    /\ pc' = "parsed"
    /\ UNCHANGED <<tool, lines, li, nodes, node_stack, last_header_level>>
    /\ UNCHANGED layoutVars
    /\ UNCHANGED <<invokeVars, pyplotVars, replayVars>>

\* last_header_level after a line was processed: a header line records its
\* level before its content is looked at; a line that creates a node and is
\* neither a header nor a bullet line resets it
HeaderLevelAfter(line, lhl) ==
    IF LineKind(line) = "header" THEN HeaderCount(line)
    ELSE IF LineKind(line) = "ordered" /\ LineContent(line) # <<>> THEN 0
    ELSE lhl

\* the level given to each line of a text, 0 for a line that creates no node
RECURSIVE LevelsFrom(_, _)
LevelsFrom(ls, lhl) ==
    IF ls = <<>> THEN <<>>
    ELSE LET line == RStrip(Head(ls))
         IN  <<IF CreatesNoNode(line) THEN 0 ELSE LineLevel(line, lhl)>>
                 \o LevelsFrom(Tail(ls), HeaderLevelAfter(line, lhl))

ParsedLevels(ls) == LevelsFrom(ls, 0)

ParseNext == SkipLine \/ HeaderLine \/ OrderedLine \/ BulletItemLine \/ ReturnTree

\* the state before the first statement at position p, for a text of docs
InitAt(docs, p) ==
    /\ tool \in {"center", "horizontal"}
    /\ lines \in {StripSplit(d) : d \in docs}
    /\ li = 1
    /\ heap = <<>>
    /\ nodes = <<>>
    /\ node_stack = <<>>
    /\ last_header_level = 0
    /\ pc = p
    /\ tree_data = 0
    /\ fig = [width |-> 0, height |-> 0, x_limit |-> 0, y_limit |-> 0]
    /\ frames = <<>>
    /\ labels = <<>>
    /\ connectors = <<>>
    /\ all_positions = <<>>
    /\ messages = <<>>
    /\ temp_files = {}
    /\ success = FALSE
    /\ display_filename = <<>>
    /\ threads = <<>>
    /\ Gcf = <<>>
    /\ output_files = <<>>
    /\ returned = <<>>

InitWith(docs) == InitAt(docs, "parse")

ParseInit == InitWith(CatalogDocs(MaxLines))

ParseSpec == ParseInit /\ [][ParseNext]_vars

----------------------------------------------------------------------------
(* Numbers: a real r is the integer nearest to r * Scale *)

Scale == 10 * 1000

Range(f) == {f[i] : i \in DOMAIN f}

Max(S) == CHOOSE x \in S : \A y \in S : y <= x

Abs(a) == IF a < 0 THEN -a ELSE a
Min2(a, b) == IF a <= b THEN a ELSE b
Max2(a, b) == IF a >= b THEN a ELSE b

\* a / b rounded to the nearest integer, b > 0
RDiv(a, b) == (2 * a + b) \div (2 * b)

\* the product of two reals
Mul(a, b) == RDiv(a * b, Scale)

\* n / d of the real a, for small naturals n and d (a * 0.8 is Frac(a, 8, 10))
Frac(a, n, d) == RDiv(a * n, d)

\* math.pi
Pi == 31416
TwoPi == 2 * Pi
HalfPi == Pi \div 2

\* an angle reduced to [-Pi, Pi)
NormAngle(a) == ((a + Pi) % TwoPi) - Pi

\* Taylor polynomials on [0, Pi/2]
CosT(x) ==
    LET x2 == (x * x) \div Scale
        t1 == Scale
        t2 == (t1 * x2) \div (2 * Scale)
        t3 == (t2 * x2) \div (12 * Scale)
        t4 == (t3 * x2) \div (30 * Scale)
        t5 == (t4 * x2) \div (56 * Scale)
        t6 == (t5 * x2) \div (90 * Scale)
    IN  t1 - t2 + t3 - t4 + t5 - t6

SinT(x) ==
    LET x2 == (x * x) \div Scale
        t1 == x
        t2 == (t1 * x2) \div (6 * Scale)
        t3 == (t2 * x2) \div (20 * Scale)
        t4 == (t3 * x2) \div (42 * Scale)
        t5 == (t4 * x2) \div (72 * Scale)
        t6 == (t5 * x2) \div (110 * Scale)
    IN  t1 - t2 + t3 - t4 + t5 - t6

\* math.cos, math.sin
Cos(a) ==
    LET x == Abs(NormAngle(a))
    IN  IF x > HalfPi THEN -CosT(Pi - x) ELSE CosT(x)

Sin(a) ==
    LET n == NormAngle(a)
        x == Abs(n)
        v == IF x > HalfPi THEN SinT(Pi - x) ELSE SinT(x)
    IN  IF n < 0 THEN -v ELSE v

\* float('inf')
Inf == 100000 * Scale

----------------------------------------------------------------------------
(* Tree measures: _calculate_tree_depth, _get_all_nodes, _count_total_nodes *)

Children(n) == heap[n].children

RECURSIVE CalculateTreeDepth(_)
CalculateTreeDepth(n) ==
    IF Children(n) = <<>> THEN 1
    ELSE 1 + Max({CalculateTreeDepth(c) : c \in Range(Children(n))})

RECURSIVE GetAllNodes(_)
RECURSIVE GetAllNodesOf(_)
GetAllNodesOf(ks) ==
    IF ks = <<>> THEN <<>> ELSE GetAllNodes(Head(ks)) \o GetAllNodesOf(Tail(ks))
GetAllNodes(n) == <<n>> \o GetAllNodesOf(Children(n))

CountTotalNodes(n) == Len(GetAllNodes(n))

\* max([len(children) for node in [tree_data] + all nodes] + [1])
MaxChildren(n) ==
    Max({Len(Children(c)) : c \in Range(GetAllNodes(n))} \cup {1})

----------------------------------------------------------------------------
(* Canvas sizing *)

\* radial: base_size 12, max_width 20, max_height 16, max_axis_limit 10
CenterWidthUncapped(root) == (12 + CalculateTreeDepth(root) * 2) * Scale
CenterWidth(root) == Min2(12 + CalculateTreeDepth(root) * 2, 20) * Scale
CenterHeight(root) == Min2(12 + MaxChildren(root) * 1, 16) * Scale
CenterAxisLimitUncapped(root) ==
    Max2(8, Max2(CalculateTreeDepth(root) * 2, MaxChildren(root))) * Scale
CenterAxisLimit(root) ==
    Min2(10, Max2(8, Max2(CalculateTreeDepth(root) * 2, MaxChildren(root)))) * Scale

\* horizontal: base_width 16, base_height 10, max_width 24, max_height 14,
\* max_x_limit 12, max_y_limit 8
HorizontalWidth(root) == Min2(16 + CalculateTreeDepth(root) * 3, 24) * Scale
HorizontalHeight(root) ==
    Min2(10 * Scale + Frac(CountTotalNodes(root) * Scale, 3, 10), 14 * Scale)
HorizontalXLimit(root) == Min2(12, Max2(10, CalculateTreeDepth(root) * 3)) * Scale
HorizontalYLimit(root) == Min2(8, Max2(6, CountTotalNodes(root) \div 4)) * Scale

----------------------------------------------------------------------------
(* Drawing *)

RootColor == "#333333"

branch_colors == <<"#FF6B6B", "#4ECDC4", "#45B7D1", "#96CEB4", "#FECA57", "#FF9FF3",
                   "#54A0FF", "#5F27CD", "#00D2D3", "#FF9F43", "#EE5A24", "#0984E3">>

\* node_color of a call
NodeColorAlwaysRoot(depth_level, inherited_color) == RootColor

NodeColor(depth_level, inherited_color) ==
    IF depth_level = 1 THEN RootColor ELSE inherited_color

\* branch_color of child i (0-based) of a node at depth_level
BranchColorByIndex(depth_level, i, inherited_color) ==
    branch_colors[(i % Len(branch_colors)) + 1]

BranchColor(depth_level, i, inherited_color) ==
    IF depth_level = 1
    THEN branch_colors[(i % Len(branch_colors)) + 1]
    ELSE inherited_color

\* draw_text_label(x, y, text, depth_level, color); node is the id of the
\* node dict whose content is drawn (history only, the call does not carry it)
Label(n, x, y, depth_level, color) ==
    [node |-> n, x |-> x, y |-> y, text |-> heap[n].content,
     depth_level |-> depth_level, color |-> color]

\* abs(start_x - end_x) < 0.01 and abs(start_y - end_y) < 0.01
TooClose(x1, y1, x2, y2) ==
    /\ Abs(x1 - x2) < Scale \div 100
    /\ Abs(y1 - y2) < Scale \div 100

\* distance < 0.1
ShortLine(x1, y1, x2, y2) ==
    /\ Abs(x1 - x2) < Scale \div 10
    /\ Abs(y1 - y2) < Scale \div 10
    /\ (x1 - x2) * (x1 - x2) + (y1 - y2) * (y1 - y2) < (Scale \div 10) * (Scale \div 10)

\* draw_curved_branch_line: what ax.plot receives, nothing when the two points
\* are too close; child is the id of the node the line leads to (history only)
DrawCurvedBranchLine(cs, child, x1, y1, x2, y2, color, linewidth) ==
    IF TooClose(x1, y1, x2, y2) THEN cs
    ELSE Append(cs, [child |-> child, x1 |-> x1, y1 |-> y1, x2 |-> x2, y2 |-> y2,
                     color |-> color, linewidth |-> linewidth,
                     shape |-> IF ShortLine(x1, y1, x2, y2) THEN "straight" ELSE "curve"])

Top == frames[Len(frames)]
Caller == SubSeq(frames, 1, Len(frames) - 1)

----------------------------------------------------------------------------
(* Radial layout: layout_dynamic_center_mindmap *)

\* radius = min(3.0 + depth*0.3 + count*0.05, axis_limit * 0.3)
RadiusUncapped(depth_level, child_count) ==
    3 * Scale + depth_level * Frac(Scale, 3, 10) + child_count * Frac(Scale, 5, 100)

Radius(depth_level, child_count, axis_limit) ==
    Min2(RadiusUncapped(depth_level, child_count), Frac(axis_limit, 3, 10))

\* the angle of child i (0-based)
ChildAngle(depth_level, child_count, parent_angle, angle_range, i) ==
    IF child_count = 1 THEN parent_angle
    ELSE IF depth_level = 1 THEN i * RDiv(TwoPi, child_count)
    ELSE (parent_angle - RDiv(angle_range, 2)) + i * RDiv(angle_range, Max2(child_count - 1, 1))

\* max(-axis_limit + 1, min(axis_limit - 1, v))
NoClamp(v, axis_limit) == v

ClampToAxis(v, axis_limit) ==
    Max2(-axis_limit + Scale, Min2(axis_limit - Scale, v))

\* line_thickness = max(3 - depth_level * 0.5, 1)
CenterLineThicknessNoFloor(depth_level) == 3 * Scale - depth_level * (Scale \div 2)

CenterLineThickness(depth_level) == Max2(3 * Scale - depth_level * (Scale \div 2), Scale)

\* child_angle_range
ChildAngleRangeUnchanged(child, angle_range, child_count) == angle_range

ChildAngleRange(child, angle_range, child_count) ==
    IF Len(Children(child)) > 0
    THEN Min2(RDiv(Pi, 3), RDiv(angle_range, Max2(child_count, 1)))
    ELSE 0

CenterFrame(n, x, y, depth_level, parent_angle, angle_range, color) ==
    [node |-> n, x |-> x, y |-> y, depth_level |-> depth_level,
     parent_angle |-> parent_angle, angle_range |-> angle_range,
     available_height |-> 0, inherited_color |-> color,
     i |-> 0, stage |-> "enter", min_child_y |-> Inf, max_child_y |-> -Inf,
     child_positions |-> <<>>]

\* the callee's return value reaches its caller: the radial caller extends its
\* child_positions with the list
CenterReturnTo(fs, positions) ==
    IF fs = <<>> THEN fs
    ELSE [fs EXCEPT ![Len(fs)].child_positions = @ \o positions]

\* tree_depth, max_children, figure and axis limits, then the first call
GenerateCenter ==
    /\ pc = "parsed"
    /\ tool = "center"
    /\ fig' = [width |-> CenterWidth(tree_data), height |-> CenterHeight(tree_data),
               x_limit |-> CenterAxisLimit(tree_data),
               y_limit |-> CenterAxisLimit(tree_data)]
    /\ frames' = <<CenterFrame(tree_data, 0, 0, 1, 0, TwoPi, RootColor)>>
    /\ pc' = "layout"
    /\ UNCHANGED <<tool, tree_data, labels, connectors, all_positions>>
    /\ UNCHANGED parseVars
    /\ UNCHANGED <<invokeVars, pyplotVars, replayVars>>

\* entry of a call: the node's label; a node without children returns
CenterEnter ==
    /\ pc = "layout"
    /\ tool = "center"
    /\ frames # <<>>
    /\ Top.stage = "enter"
    /\ labels' = Append(labels, Label(Top.node, Top.x, Top.y, Top.depth_level,
                                      NodeColor(Top.depth_level, Top.inherited_color)))
    /\ IF Children(Top.node) = <<>>
       THEN /\ frames' = CenterReturnTo(Caller, << <<Top.x, Top.y>> >>)
            /\ pc' = IF Caller = <<>> THEN "done" ELSE pc
            /\ all_positions' = IF Caller = <<>> THEN << <<Top.x, Top.y>> >> ELSE all_positions
       ELSE /\ frames' = [frames EXCEPT ![Len(frames)].stage = "loop"]
            /\ UNCHANGED <<pc, all_positions>>
    /\ UNCHANGED <<tool, tree_data, fig, connectors>>
    /\ UNCHANGED parseVars
    /\ UNCHANGED <<invokeVars, pyplotVars, replayVars>>

\* one iteration of the loop over the children: position, colour, connector,
\* angular budget and the recursive call
CenterChild ==
    /\ pc = "layout"
    /\ tool = "center"
    /\ frames # <<>>
    /\ Top.stage = "loop"
    /\ Top.i < Len(Children(Top.node))
    /\ LET f == Top
           child_count == Len(Children(f.node))
           child == Children(f.node)[f.i + 1]
           radius == Radius(f.depth_level, child_count, fig.x_limit)
           angle == ChildAngle(f.depth_level, child_count, f.parent_angle, f.angle_range, f.i)
           child_x == ClampToAxis(f.x + Mul(radius, Cos(angle)), fig.x_limit)
           child_y == ClampToAxis(f.y + Mul(radius, Sin(angle)), fig.x_limit)
           branch_color == BranchColor(f.depth_level, f.i, f.inherited_color)
       IN  /\ connectors' = DrawCurvedBranchLine(connectors, child, f.x, f.y, child_x, child_y,
                                                 branch_color, CenterLineThickness(f.depth_level))
           /\ frames' = Append([frames EXCEPT ![Len(frames)].i = @ + 1],
                               CenterFrame(child, child_x, child_y, f.depth_level + 1, angle,
                                           ChildAngleRange(child, f.angle_range, child_count),
                                           branch_color))
    /\ UNCHANGED <<tool, tree_data, fig, labels, pc, all_positions>>
    /\ UNCHANGED parseVars
    /\ UNCHANGED <<invokeVars, pyplotVars, replayVars>>

\* after the last child: return [(center_x, center_y)] + child_positions
CenterReturn ==
    /\ pc = "layout"
    /\ tool = "center"
    /\ frames # <<>>
    /\ Top.stage = "loop"
    /\ Top.i >= Len(Children(Top.node))
    /\ LET result == << <<Top.x, Top.y>> >> \o Top.child_positions
       IN  /\ frames' = CenterReturnTo(Caller, result)
           /\ pc' = IF Caller = <<>> THEN "done" ELSE pc
           /\ all_positions' = IF Caller = <<>> THEN result ELSE all_positions
    /\ UNCHANGED <<tool, tree_data, fig, labels, connectors>>
    /\ UNCHANGED parseVars
    /\ UNCHANGED <<invokeVars, pyplotVars, replayVars>>

----------------------------------------------------------------------------
(* Horizontal layout: layout_dynamic_horizontal_mindmap *)

\* next_x = start_x + 3.0 + depth_level * 0.5, before the bound is applied
NextXUncapped(start_x, depth_level) == start_x + 3 * Scale + depth_level * (Scale \div 2)

\* if next_x > x_limit - 1: next_x = x_limit - 1
NextXNoCap(start_x, depth_level, x_limit) == NextXUncapped(start_x, depth_level)

NextX(start_x, depth_level, x_limit) ==
    IF NextXUncapped(start_x, depth_level) > x_limit - Scale
    THEN x_limit - Scale
    ELSE NextXUncapped(start_x, depth_level)

\* vertical_spacing = min(min(available_height / max(child_count, 1), 4.0), 3.0)
VerticalSpacing(available_height, child_count) ==
    Min2(Min2(RDiv(available_height, Max2(child_count, 1)), 4 * Scale), 3 * Scale)

\* max(-y_limit + 0.5, min(y_limit - 0.5, pos))
ClampY(pos, y_limit) ==
    Max2(-y_limit + Scale \div 2, Min2(y_limit - Scale \div 2, pos))

\* child_positions[i] (0-based)
ChildY(start_y, available_height, child_count, i, y_limit) ==
    IF child_count = 1 THEN start_y
    ELSE LET vertical_spacing == VerticalSpacing(available_height, child_count)
             total_height == (child_count - 1) * vertical_spacing
             start_child_y == start_y + RDiv(total_height, 2)
         IN  ClampY(start_child_y - i * vertical_spacing, y_limit)

\* line_thickness = max(2.5 - depth_level * 0.2, 1)
HorizontalLineThickness(depth_level) ==
    Max2(Frac(Scale, 5, 2) - depth_level * (Scale \div 5), Scale)

\* the guard of the call of draw_curved_branch_line
ValidCoordinates(start_x, start_y, next_x, child_y, x_limit, y_limit) ==
    /\ \/ Abs(start_x - next_x) > Scale \div 100
       \/ Abs(start_y - child_y) > Scale \div 100
    /\ -3 * Scale <= start_x /\ start_x <= x_limit
    /\ -3 * Scale <= next_x /\ next_x <= x_limit
    /\ -y_limit <= start_y /\ start_y <= y_limit
    /\ -y_limit <= child_y /\ child_y <= y_limit

\* child_height
ChildHeight(available_height, child_count) ==
    IF child_count > 1
    THEN Max2(Frac(VerticalSpacing(available_height, child_count), 8, 10), Scale)
    ELSE Frac(available_height, 6, 10)

\* if next_x < x_limit - 0.5
HasSpace(next_x, x_limit) == next_x < x_limit - Scale \div 2

HorizontalFrame(n, x, y, depth_level, available_height, color) ==
    [node |-> n, x |-> x, y |-> y, depth_level |-> depth_level,
     parent_angle |-> 0, angle_range |-> 0,
     available_height |-> available_height, inherited_color |-> color,
     i |-> 0, stage |-> "enter", min_child_y |-> Inf, max_child_y |-> -Inf,
     child_positions |-> <<>>]

\* min_child_y = min(min_child_y, y); max_child_y = max(max_child_y, y)
TrackY(f, y) ==
    [f EXCEPT !.min_child_y = Min2(@, y), !.max_child_y = Max2(@, y)]

\* the callee's return value reaches its caller: the horizontal caller tracks
\* the Y range with actual_child_y
HorizontalReturnTo(fs, actual_child_y) ==
    IF fs = <<>> THEN fs
    ELSE [fs EXCEPT ![Len(fs)] = TrackY(@, actual_child_y)]

\* the value a call with children returns
ReturnedY(f) ==
    IF f.min_child_y # Inf /\ f.max_child_y # -Inf
    THEN RDiv(f.min_child_y + f.max_child_y, 2)
    ELSE f.y

\* tree_depth, total_nodes, figure and axis limits, then the first call with
\* available_height = y_limit * 2
GenerateHorizontal ==
    /\ pc = "parsed"
    /\ tool = "horizontal"
    /\ fig' = [width |-> HorizontalWidth(tree_data), height |-> HorizontalHeight(tree_data),
               x_limit |-> HorizontalXLimit(tree_data),
               y_limit |-> HorizontalYLimit(tree_data)]
    /\ frames' = <<HorizontalFrame(tree_data, -2 * Scale, 0, 1,
                                   HorizontalYLimit(tree_data) * 2, RootColor)>>
    /\ pc' = "layout"
    /\ UNCHANGED <<tool, tree_data, labels, connectors, all_positions>>
    /\ UNCHANGED parseVars
    /\ UNCHANGED <<invokeVars, pyplotVars, replayVars>>

\* entry of a call: the node's label; a node without children returns start_y
HorizontalEnter ==
    /\ pc = "layout"
    /\ tool = "horizontal"
    /\ frames # <<>>
    /\ Top.stage = "enter"
    /\ labels' = Append(labels, Label(Top.node, Top.x, Top.y, Top.depth_level,
                                      NodeColor(Top.depth_level, Top.inherited_color)))
    /\ IF Children(Top.node) = <<>>
       THEN /\ frames' = HorizontalReturnTo(Caller, Top.y)
            /\ pc' = IF Caller = <<>> THEN "done" ELSE pc
       ELSE /\ frames' = [frames EXCEPT ![Len(frames)].stage = "loop"]
            /\ UNCHANGED pc
    /\ UNCHANGED <<tool, tree_data, fig, connectors, all_positions>>
    /\ UNCHANGED parseVars
    /\ UNCHANGED <<invokeVars, pyplotVars, replayVars>>

\* one iteration of the loop over the children: colour, connector, height
\* budget, then the recursive call, or only the child's label when there is
\* no space
HorizontalChild ==
    /\ pc = "layout"
    /\ tool = "horizontal"
    /\ frames # <<>>
    /\ Top.stage = "loop"
    /\ Top.i < Len(Children(Top.node))
    /\ LET f == Top
           child_count == Len(Children(f.node))
           child == Children(f.node)[f.i + 1]
           next_x == NextX(f.x, f.depth_level, fig.x_limit)
           child_y == ChildY(f.y, f.available_height, child_count, f.i, fig.y_limit)
           branch_color == BranchColor(f.depth_level, f.i, f.inherited_color)
           child_height == ChildHeight(f.available_height, child_count)
           stepped == [f EXCEPT !.i = @ + 1]
       IN  /\ connectors' =
                  IF ValidCoordinates(f.x, f.y, next_x, child_y, fig.x_limit, fig.y_limit)
                  THEN DrawCurvedBranchLine(connectors, child, f.x, f.y, next_x, child_y,
                                            branch_color, HorizontalLineThickness(f.depth_level))
                  ELSE connectors
           /\ IF HasSpace(next_x, fig.x_limit)
              THEN /\ frames' = Append([frames EXCEPT ![Len(frames)] = stepped],
                                       HorizontalFrame(child, next_x, child_y, f.depth_level + 1,
                                                       child_height, branch_color))
                   /\ UNCHANGED labels
              ELSE /\ labels' = Append(labels, Label(child, next_x, child_y,
                                                     f.depth_level + 1, branch_color))
                   /\ frames' = [frames EXCEPT ![Len(frames)] = TrackY(stepped, child_y)]
    /\ UNCHANGED <<tool, tree_data, fig, pc, all_positions>>
    /\ UNCHANGED parseVars
    /\ UNCHANGED <<invokeVars, pyplotVars, replayVars>>

\* after the last child: return the centre of the Y range the children used
HorizontalReturn ==
    /\ pc = "layout"
    /\ tool = "horizontal"
    /\ frames # <<>>
    /\ Top.stage = "loop"
    /\ Top.i >= Len(Children(Top.node))
    /\ frames' = HorizontalReturnTo(Caller, ReturnedY(Top))
    /\ pc' = IF Caller = <<>> THEN "done" ELSE pc
    /\ UNCHANGED <<tool, tree_data, fig, labels, connectors, all_positions>>
    /\ UNCHANGED parseVars
    /\ UNCHANGED <<invokeVars, pyplotVars, replayVars>>

----------------------------------------------------------------------------
(* The whole run: parse, then lay out *)

LayoutNext ==
    \/ GenerateCenter \/ CenterEnter \/ CenterChild \/ CenterReturn
    \/ GenerateHorizontal \/ HorizontalEnter \/ HorizontalChild \/ HorizontalReturn

Next == ParseNext \/ LayoutNext

Docs ==
    NestedDocs(MaxNest) \cup CatalogDocs(2)
        \cup {ChainDoc(DeepLevels), FlatDoc(WideCount)}
        \cup {ChainDocUnder(h, DeepLevels) : h \in 1..MaxHeader}
        \cup {BranchyDoc(Len(branch_colors) + 1)}
        \cup {ForkedChainDoc(DeepLevels, 1), ForkedChainDoc(DeepLevels, DeepLevels - 1)}

Init == InitWith(Docs)

Spec == Init /\ [][Next]_vars

\* _generate_png_mindmap is one synchronous call: once the tree is parsed the
\* layout takes its next step whenever it has one
FairSpec == Spec /\ WF_vars(LayoutNext)

----------------------------------------------------------------------------
(* The parser called again: _parse_markdown_to_tree of either tool class on *)
(* a text that was parsed before.  The method has the same text in both     *)
(* classes and reads nothing but its argument.                              *)

\* the dict the parser returned, as a value: content, level and the children
\* in order
RECURSIVE TreeOf(_, _)
TreeOf(h, n) ==
    [content  |-> h[n].content,
     level    |-> h[n].level,
     children |-> [i \in DOMAIN h[n].children |-> TreeOf(h, h[n].children[i])]]

LocalsKept ==
    [nodes |-> <<>>, node_stack |-> <<>>, last_header_level |-> last_header_level]

\* nodes = [], node_stack = [], last_header_level = 0: the locals of a call
LocalsAtEntry ==
    [nodes |-> <<>>, node_stack |-> <<>>, last_header_level |-> 0]

\* another call of the parser, of either class, on the same text
ParseAgain ==
    /\ pc = "parsed"
    /\ Len(returned) < MaxReparse
    /\ returned' = Append(returned, [tool |-> tool, tree |-> TreeOf(heap, tree_data)])
    /\ tool' \in {"center", "horizontal"}
    /\ li' = 1
    /\ heap' = <<>>
    /\ nodes' = LocalsAtEntry.nodes
    /\ node_stack' = LocalsAtEntry.node_stack
    /\ last_header_level' = LocalsAtEntry.last_header_level
    /\ tree_data' = 0
    /\ pc' = "parse"
    /\ UNCHANGED lines
    /\ UNCHANGED <<layoutVars, invokeVars, pyplotVars>>

ReparseNext == ParseNext \/ ParseAgain

ReparseInit == InitWith(Docs)

ReparseSpec == ReparseInit /\ [][ReparseNext]_vars

----------------------------------------------------------------------------
(* The tool call: _invoke, a generator driven by its consumer *)

TempDir == "temp_dir"
TempOutputPath == "temp_output_path"

\* not markdown_content: the trimmed text is empty
EmptyContent == lines = << <<>> >>

\* positions at which the generator is suspended in a yield
YieldPcs ==
    {"yield_missing", "yield_progress", "yield_blob", "yield_success",
     "yield_failed", "yield_error"}

\* the yields that lie inside the with block
YieldsInWith == {"yield_blob", "yield_success", "yield_failed"}

\* positions inside the with block
WithPcs == {"parse", "parsed", "layout", "done", "generated"} \cup YieldsInWith

\* TemporaryDirectory.__exit__: the directory and all it holds are removed
ExitWithLeak(files) == files

ExitWith(files) == {}

\* \w for the characters of the model's inputs: letters, digits and '_'
WordChars == {
    "a", "b", "c", "d", "e", "f", "g", "h", "i", "j", "k", "l", "m", "n",
    "o", "p", "q", "r", "s", "t", "u", "v", "w", "x", "y", "z", "A", "B",
    "C", "D", "E", "F", "G", "H", "I", "J", "K", "L", "M", "N", "O", "P",
    "Q", "R", "S", "T", "U", "V", "W", "X", "Y", "Z",
    "0", "1", "2", "3", "4", "5", "6", "7", "8", "9",
    "_" }

\* the complement of [^\w\-_\.]
IsFilenameChar(c) == c \in WordChars \cup {"-", "_", "."}

KeepFilename(name) == name

\* re.sub(r'[^\w\-_\.]', '_', display_filename)
SanitizeFilename(name) ==
    [i \in 1..Len(name) |-> IF IsFilenameChar(name[i]) THEN name[i] ELSE "_"]

EndsWith(s, suffix) ==
    Len(s) >= Len(suffix) /\ SubSeq(s, Len(s) - Len(suffix) + 1, Len(s)) = suffix

PngSuffix == <<".", "p", "n", "g">>

\* str() of a non-negative integer
RECURSIVE Decimal(_)
Decimal(n) ==
    LET digit == <<"0", "1", "2", "3", "4", "5", "6", "7", "8", "9">>[(n % 10) + 1]
    IN  IF n < 10 THEN <<digit>> ELSE Append(Decimal(n \div 10), digit)

\* f"mindmap_center_{int(time.time())}", f"mindmap_horizontal_{int(time.time())}"
DefaultFilename(t, now) ==
    (IF t = "center"
     THEN <<"m", "i", "n", "d", "m", "a", "p", "_", "c", "e", "n", "t", "e", "r", "_">>
     ELSE <<"m", "i", "n", "d", "m", "a", "p", "_", "h", "o", "r", "i", "z", "o", "n", "t", "a", "l", "_">>)
    \o Decimal(now)

\* display_filename as the progress message is yielded; filename is the
\* trimmed parameter
DisplayFilename(filename, t, now) ==
    LET chosen == IF filename # <<>> THEN filename ELSE DefaultFilename(t, now)
        clean  == SanitizeFilename(chosen)
    IN  IF EndsWith(clean, PngSuffix) THEN clean ELSE clean \o PngSuffix

\* values of the filename parameter and of int(time.time())
Filenames == {
    <<>>,
    <<" ", " ">>,
    <<"m", "a", "p">>,
    <<" ", "m", "y", " ", "m", "a", "p", " ">>,
    <<"a", "/", "b", ".", "p", "n", "g">>,
    <<".", ".", "/", "x", "-", "1", "_", "y">>,
    <<"x", ".", "P", "N", "G">>,
    <<"p", "n", "g">> }

Times == {0, 1762000000}

\* the first next(): the generator runs up to its first yield
InvokeBegin ==
    /\ pc = "start"
    /\ IF EmptyContent
       THEN /\ messages' = Append(messages, "text_missing")
            /\ pc' = "yield_missing"
            /\ UNCHANGED display_filename
       ELSE /\ \E raw \in Filenames, now \in Times :
                   display_filename' = DisplayFilename(Strip(raw), tool, now)
            /\ messages' = Append(messages, "text_progress")
            /\ pc' = "yield_progress"
    /\ UNCHANGED <<tool, tree_data, temp_files, success>>
    /\ UNCHANGED <<parseVars, layoutVars, pyplotVars, replayVars>>

\* next() after the progress message: the with block is entered and the
\* parser is called
EnterWith ==
    /\ pc = "yield_progress"
    /\ temp_files' = {TempDir}
    /\ pc' = "parse"
    /\ UNCHANGED <<tool, tree_data, messages, success, display_filename>>
    /\ UNCHANGED <<parseVars, layoutVars, pyplotVars, replayVars>>

\* the end of _generate_png_mindmap: savefig writes the file and True is
\* returned, or an exception inside the try block makes it return False, with
\* or without a file left behind
SaveFig ==
    /\ pc = "done"
    /\ \E written \in BOOLEAN, ok \in BOOLEAN :
          /\ ok => written
          /\ temp_files' = IF written THEN temp_files \cup {TempOutputPath} ELSE temp_files
          /\ success' = ok
    /\ pc' = "generated"
    /\ UNCHANGED <<tool, tree_data, messages, display_filename>>
    /\ UNCHANGED <<parseVars, layoutVars, pyplotVars, replayVars>>

\* if success and os.path.exists(temp_output_path): the blob, else the
\* failure text
CheckOutput ==
    /\ pc = "generated"
    /\ IF success /\ TempOutputPath \in temp_files
       THEN /\ messages' = Append(messages, "blob")
            /\ pc' = "yield_blob"
       ELSE /\ messages' = Append(messages, "text_failed")
            /\ pc' = "yield_failed"
    /\ UNCHANGED <<tool, tree_data, temp_files, success, display_filename>>
    /\ UNCHANGED <<parseVars, layoutVars, pyplotVars, replayVars>>

\* reading the file raises: the with block is left, then the handler of
\* except Exception yields the error text
RaiseInWith ==
    /\ pc = "generated"
    /\ success /\ TempOutputPath \in temp_files
    /\ temp_files' = ExitWith(temp_files)
    /\ messages' = Append(messages, "text_error")
    /\ pc' = "yield_error"
    /\ UNCHANGED <<tool, tree_data, success, display_filename>>
    /\ UNCHANGED <<parseVars, layoutVars, pyplotVars, replayVars>>

\* next() after the blob: the success text
YieldSuccess ==
    /\ pc = "yield_blob"
    /\ messages' = Append(messages, "text_success")
    /\ pc' = "yield_success"
    /\ UNCHANGED <<tool, tree_data, temp_files, success, display_filename>>
    /\ UNCHANGED <<parseVars, layoutVars, pyplotVars, replayVars>>

\* next() after the last message: the with block, if open, is left and the
\* generator returns
InvokeReturn ==
    /\ pc \in {"yield_missing", "yield_success", "yield_failed", "yield_error"}
    /\ temp_files' = IF pc \in YieldsInWith THEN ExitWith(temp_files) ELSE temp_files
    /\ pc' = "returned"
    /\ UNCHANGED <<tool, tree_data, messages, success, display_filename>>
    /\ UNCHANGED <<parseVars, layoutVars, pyplotVars, replayVars>>

\* the consumer stops iterating: the generator is closed, GeneratorExit is
\* raised at the yield, passes the with block and is not caught by
\* except Exception
ConsumerClose ==
    /\ pc \in YieldPcs
    /\ temp_files' = IF pc \in YieldsInWith THEN ExitWith(temp_files) ELSE temp_files
    /\ pc' = "closed"
    /\ UNCHANGED <<tool, tree_data, messages, success, display_filename>>
    /\ UNCHANGED <<parseVars, layoutVars, pyplotVars, replayVars>>

InvokeNext ==
    \/ InvokeBegin \/ EnterWith \/ ParseNext \/ LayoutNext \/ SaveFig
    \/ CheckOutput \/ RaiseInWith \/ YieldSuccess \/ InvokeReturn \/ ConsumerClose

InvokeInit == InitAt(CatalogDocs(2), "start")

InvokeSpec == InvokeInit /\ [][InvokeNext]_vars

----------------------------------------------------------------------------
(* Concurrent calls of _generate_png_mindmap, each in a thread of one        *)
(* process.  fig and ax are locals of the call; plt.tight_layout,          *)
(* plt.savefig and plt.close act on pyplot's current figure, which is      *)
(* process-wide.  A figure is named by the thread whose plt.subplots made  *)
(* it; 0 names a figure that pyplot made because none was open.            *)

Threads == 1..NumThreads

ImplicitFigure == 0

\* what the layout of thread t draws on its own axes
RootArtists(t) == {<<t, "root label">>}
ChildArtists(t) == {<<t, "child label">>, <<t, "connector">>}
OwnArtists(t) == RootArtists(t) \cup ChildArtists(t)

\* the artists of a figure
FigureContent(f) == IF f = ImplicitFigure THEN {} ELSE threads[f].artists

\* plt.gcf(): the registry after the call; a figure is made when none is open
GcfAfterGet == IF Gcf = <<>> THEN <<ImplicitFigure>> ELSE Gcf

\* the current figure
CurrentFigure == GcfAfterGet[Len(GcfAfterGet)]

ThreadStep(t, from, to) ==
    /\ pc = "concurrent"
    /\ threads[t].pc = from
    /\ UNCHANGED <<tool, pc, tree_data>>
    /\ UNCHANGED <<parseVars, layoutVars, invokeVars, replayVars>>

\* fig, ax = plt.subplots(...): a new figure, which becomes the current one
Subplots(t) ==
    /\ ThreadStep(t, "subplots", "layout")
    /\ Gcf' = Append(Gcf, t)
    /\ threads' = [threads EXCEPT ![t].pc = "layout"]
    /\ UNCHANGED output_files

\* the layout: the root's label, drawn on the thread's own axes
DrawRoot(t) ==
    /\ ThreadStep(t, "layout", "children")
    /\ threads' = [threads EXCEPT ![t].pc = "children",
                                  ![t].artists = @ \cup RootArtists(t)]
    /\ UNCHANGED <<Gcf, output_files>>

\* the layout: connector and label of a child, drawn on the thread's own axes
DrawChild(t) ==
    /\ ThreadStep(t, "children", "tight_layout")
    /\ threads' = [threads EXCEPT ![t].pc = "tight_layout",
                                  ![t].artists = @ \cup ChildArtists(t)]
    /\ UNCHANGED <<Gcf, output_files>>

\* plt.tight_layout(): on the current figure
TightLayout(t) ==
    /\ ThreadStep(t, "tight_layout", "savefig")
    /\ Gcf' = GcfAfterGet
    /\ threads' = [threads EXCEPT ![t].pc = "savefig"]
    /\ UNCHANGED output_files

\* plt.savefig(output_file, ...): the current figure is written to the file
SaveCurrentFigure(t) ==
    /\ ThreadStep(t, "savefig", "close")
    /\ Gcf' = GcfAfterGet
    /\ output_files' = [output_files EXCEPT ![t] = FigureContent(CurrentFigure)]
    /\ threads' = [threads EXCEPT ![t].pc = "close"]

\* plt.close(): the current figure, if there is one, leaves the registry;
\* then return True
CloseCurrentFigure(t) ==
    /\ ThreadStep(t, "close", "returned")
    /\ Gcf' = IF Gcf = <<>> THEN Gcf ELSE SubSeq(Gcf, 1, Len(Gcf) - 1)
    /\ threads' = [threads EXCEPT ![t].pc = "returned",
                                  ![t].closed = IF Gcf = <<>> THEN {} ELSE {Gcf[Len(Gcf)]}]
    /\ UNCHANGED output_files

ConcurrentNext ==
    \E t \in Threads :
        \/ Subplots(t) \/ DrawRoot(t) \/ DrawChild(t)
        \/ TightLayout(t) \/ SaveCurrentFigure(t) \/ CloseCurrentFigure(t)

ConcurrentInit ==
    /\ tool = "center"
    /\ lines = << <<>> >>
    /\ li = 1
    /\ heap = <<>>
    /\ nodes = <<>>
    /\ node_stack = <<>>
    /\ last_header_level = 0
    /\ pc = "concurrent"
    /\ tree_data = 0
    /\ fig = [width |-> 0, height |-> 0, x_limit |-> 0, y_limit |-> 0]
    /\ frames = <<>>
    /\ labels = <<>>
    /\ connectors = <<>>
    /\ all_positions = <<>>
    /\ messages = <<>>
    /\ temp_files = {}
    /\ success = FALSE
    /\ display_filename = <<>>
    /\ threads = [t \in Threads |-> [pc |-> "subplots", artists |-> {}, closed |-> {}]]
    /\ Gcf = <<>>
    /\ output_files = [t \in Threads |-> {}]
    /\ returned = <<>>

ConcurrentSpec == ConcurrentInit /\ [][ConcurrentNext]_vars

----------------------------------------------------------------------------
(* Tree helpers used by the properties *)

\* does line i of the input create a node?
Accepted(i) ==
    /\ LineKind(RStrip(lines[i])) \in {"header", "ordered", "bullet"}
    /\ LineContent(RStrip(lines[i])) # <<>>

\* ids of the nodes created by the lines processed so far (ids are given in
\* document order); the synthetic root, when there is one, is not among them
ParsedIds == 1..Cardinality({i \in 1..(li - 1) : Accepted(i)})

\* the parents of n among the nodes in S
ParentsIn(S, n) == {p \in S : n \in Range(heap[p].children)}

\* parsed nodes that are no child of a parsed node, in document order
RECURSIVE SortedSeq(_)
SortedSeq(S) ==
    IF S = {} THEN <<>>
    ELSE LET m == Max(S) IN Append(SortedSeq(S \ {m}), m)

TopLevelOf(ids) == SortedSeq({n \in ids : ParentsIn(ids, n) = {}})

TopLevel == TopLevelOf(ParsedIds)

----------------------------------------------------------------------------
(* Properties of the parser *)

\* C1 (as claimed): in the returned tree every child has a level strictly
\* greater than its parent's level, the children of the synthetic root included
C1_ChildLevelGreater ==
    pc # "parse" =>
        \A p \in 1..Len(heap) : \A c \in Range(heap[p].children) :
            heap[c].level > heap[p].level

\* C2: the parser returns one root: a placeholder when no node was parsed, the
\* only top-level node when there is one, else a synthetic root over the
\* top-level nodes in document order; every other node has exactly one parent
C2_SingleRoot ==
    pc # "parse" =>
        LET ids == ParsedIds
            tops == TopLevelOf(ids)
        IN  /\ tree_data \in 1..Len(heap)
            /\ tops = <<>> => heap[tree_data] = Node(MindMapContent, 1, <<>>)
            /\ Len(tops) = 1 => tree_data = tops[1]
            /\ Len(tops) >= 2 =>
                   /\ tree_data \notin ids
                   /\ heap[tree_data] = Node(MindMapContent, 1, tops)
            /\ \A n \in 1..Len(heap) :
                   Cardinality(ParentsIn(1..Len(heap), n)) = (IF n = tree_data THEN 0 ELSE 1)

C2_Witness ==
    /\ pc = "parsed"
    /\ Len(TopLevel) >= 2
    /\ \E n \in ParsedIds : heap[n].children # <<>>

\* C3: the parent of a parsed node is the latest earlier node of smaller level,
\* children are kept in document order, and a node is top-level exactly when
\* no earlier node has a smaller level
SmallerBefore(n) == {m \in 1..(n - 1) : heap[m].level < heap[n].level}

C3_NearestSmallerParent ==
    LET ids == ParsedIds
    IN  /\ \A n \in ids :
              LET before == SmallerBefore(n)
              IN  /\ ParentsIn(ids, n) = (IF before = {} THEN {} ELSE {Max(before)})
                  /\ (n \in Range(nodes)) <=> (before = {})
                  /\ \A i, j \in 1..Len(heap[n].children) :
                         i < j => heap[n].children[i] < heap[n].children[j]
        /\ \A i, j \in 1..Len(nodes) : i < j => nodes[i] < nodes[j]

\* a node was attached to a parent that is not the node just before it, after
\* the stack was popped
C3_Witness ==
    \E n \in ParsedIds :
        /\ SmallerBefore(n) # {}
        /\ Max(SmallerBefore(n)) < n - 1
        /\ Len(heap[Max(SmallerBefore(n))].children) >= 2

\* the kind of line i of the input, and the node it created
KindOf(i) == LineKind(RStrip(lines[i]))

NodeOfLine(i) == Cardinality({k \in 1..i : Accepted(k)})

\* the latest line before i whose kind is in kinds, 0 when there is none
LastBefore(i, kinds) ==
    LET S == {k \in 1..(i - 1) : KindOf(k) \in kinds}
    IN  IF S = {} THEN 0 ELSE Max(S)

\* C15 (as claimed): a bullet line with no indentation that has a heading
\* before it, with no non-heading line since (an ordered-list line or another
\* text line; bullets under the heading keep inheriting), gets the level of
\* that heading plus one; every other bullet line gets
\* floor(leadingSpaces / 2) + 2
C15_BulletLevelRule ==
    (li > 1 /\ KindOf(li - 1) = "bullet" /\ Accepted(li - 1)) =>
        LET line == RStrip(lines[li - 1])
            h == LastBefore(li - 1, {"header"})
            r == LastBefore(li - 1, {"ordered", "other"})
        IN  heap[NodeOfLine(li - 1)].level =
                IF LeadingSpaces(line) = 0 /\ h > r
                THEN HeaderCount(lines[h]) + 1
                ELSE (LeadingSpaces(line) \div 2) + 2

\* C16 (as claimed): after a non-blank line that is neither a heading nor a
\* bullet line (an ordered-list line or any other text line) was processed,
\* the last heading level is 0, and an unindented bullet right after such a
\* line gets level 2
C16_ResetAfterOtherLine ==
    /\ (pc = "parse" /\ li > 1 /\ KindOf(li - 1) \in {"ordered", "other"}) =>
           last_header_level = 0
    /\ (li > 2 /\ KindOf(li - 2) \in {"ordered", "other"}
            /\ KindOf(li - 1) = "bullet" /\ Accepted(li - 1)
            /\ LeadingSpaces(lines[li - 1]) = 0) =>
           heap[NodeOfLine(li - 1)].level = 2

\* a list line turned from ordered to unordered or back, with the same
\* indentation and content
SwapListKind(line) ==
    IF LineKind(line) = "bullet"
    THEN Spaces(LeadingSpaces(line)) \o <<"1", ".", " ">> \o StripBullet(line)
    ELSE Spaces(LeadingSpaces(line)) \o <<"-", " ">> \o StripOrdered(line)

InsertAfter(ls, k, line) == SubSeq(ls, 1, k) \o <<line>> \o SubSeq(ls, k + 1, Len(ls))

IsListItem(i) == KindOf(i) \in {"ordered", "bullet"} /\ Accepted(i)

\* C17 (as claimed): turning a list item from ordered to unordered or back,
\* or inserting an ordered item between two unordered siblings, leaves the
\* level of every other list item as it was
C17_ListKindsIndependent ==
    pc = "parsed" =>
        /\ \A k \in 1..Len(lines) :
              IsListItem(k) =>
                  LET changed == ParsedLevels([lines EXCEPT ![k] = SwapListKind(RStrip(lines[k]))])
                  IN  \A j \in 1..Len(lines) :
                          (j # k /\ IsListItem(j)) =>
                              changed[j] = heap[NodeOfLine(j)].level
        /\ \A k \in 1..(Len(lines) - 1) :
              (/\ KindOf(k) = "bullet" /\ KindOf(k + 1) = "bullet"
               /\ Accepted(k) /\ Accepted(k + 1)
               /\ heap[NodeOfLine(k)].level = heap[NodeOfLine(k + 1)].level) =>
                  LET item == Spaces(LeadingSpaces(lines[k + 1])) \o <<"1", ".", " ", "f">>
                      changed == ParsedLevels(InsertAfter(lines, k, item))
                  IN  \A j \in 1..Len(lines) :
                          IsListItem(j) =>
                              changed[IF j <= k THEN j ELSE j + 1] = heap[NodeOfLine(j)].level

\* C18 (as claimed): a line whose content is empty after prefix stripping and
\* cleaning adds no node and leaves the parser state as it was, and every node
\* has non-empty content
C18_EmptyContentNoEffect ==
    /\ [][(/\ pc = "parse"
           /\ li <= Len(lines)
           /\ li' = li + 1
           /\ LineKind(CurLine) \in {"header", "ordered", "bullet"}
           /\ LineContent(CurLine) = <<>>)
          => UNCHANGED <<heap, nodes, node_stack, last_header_level>>]_vars
    /\ [](\A n \in DOMAIN heap : heap[n].content # <<>>)

\* C19: the levels on the stack of open nodes increase strictly from bottom
\* to top, the bottom entry is the latest top-level node, each other entry is
\* the last child of the entry below it, and the top entry is the node of the
\* latest line that created one
C19_StackShape ==
    LET ids == ParsedIds
    IN  /\ \A i \in 1..(Len(node_stack) - 1) :
              /\ heap[node_stack[i]].level < heap[node_stack[i + 1]].level
              /\ heap[node_stack[i]].children # <<>>
              /\ heap[node_stack[i]].children[Len(heap[node_stack[i]].children)]
                     = node_stack[i + 1]
        /\ (node_stack = <<>>) <=> (ids = {})
        /\ node_stack # <<>> =>
              /\ nodes # <<>>
              /\ node_stack[1] = nodes[Len(nodes)]
              /\ node_stack[Len(node_stack)] = Cardinality(ids)

\* the stack was popped: an earlier child of the bottom entry was replaced on
\* the stack by a later one
C19_Witness ==
    /\ Len(node_stack) = 2
    /\ Len(heap[node_stack[1]].children) = 2
    /\ node_stack[2] = 3

\* C13 (as claimed): for one heading of any level followed by DeepLevels
\* bullets nested by successive 2-space steps, the levels of the bullets are
\* strictly increasing, the first bullet is the child of the heading and each
\* other bullet the child of the bullet before it
C13_ChainLevelsIncreasing ==
    pc # "parse" =>
        \A h \in 1..MaxHeader :
            lines = ChainDocUnder(h, DeepLevels) =>
                /\ Len(heap) = DeepLevels + 1
                /\ \A k \in 1..DeepLevels :
                      /\ k >= 2 => heap[k + 1].level > heap[k].level
                      /\ k + 1 \in Range(heap[k].children)

----------------------------------------------------------------------------
(* Properties of the layouts *)

\* the nodes of the returned tree
TreeNodes == IF tree_data = 0 THEN {} ELSE Range(GetAllNodes(tree_data))

\* the parent of a non-root node of the tree
ParentOf(n) == CHOOSE p \in 1..Len(heap) : n \in Range(Children(p))

\* number of edges between the root and n
RECURSIVE DistanceFromRoot(_)
DistanceFromRoot(n) == IF n = tree_data THEN 0 ELSE 1 + DistanceFromRoot(ParentOf(n))

\* the draw_text_label calls made for node n
LabelsOf(n) == {i \in DOMAIN labels : labels[i].node = n}

\* is label i the label of a child of the node of label j?
IsChildLabel(i, j) == labels[i].node \in Range(Children(labels[j].node))

\* C4 (as claimed): every node at depth >= 2 has its parent's colour
C4_ColorEqualsParentFromDepth2 ==
    \A i, j \in DOMAIN labels :
        (labels[i].depth_level >= 2 /\ IsChildLabel(i, j)) =>
            labels[i].color = labels[j].color

\* C4 (amended): every node at depth >= 3 has its parent's colour; a node at
\* depth 2 has a palette colour while its parent, the root, has the root colour
C4_ColorEqualsParentFromDepth3 ==
    \A i, j \in DOMAIN labels :
        (labels[i].depth_level >= 3 /\ IsChildLabel(i, j)) =>
            labels[i].color = labels[j].color

C4_Witness ==
    /\ pc = "done"
    /\ Len(Children(tree_data)) >= 2
    /\ \E i, j \in DOMAIN labels :
          /\ labels[i].depth_level >= 3
          /\ IsChildLabel(i, j)
          /\ labels[i].color = branch_colors[2]

\* C5: every label position lies inside the axis extent: [-axis_limit,
\* axis_limit] on both axes in the radial layout, [-3, x_limit] by
\* [-y_limit, y_limit] in the horizontal one
C5_LabelsInsideAxes ==
    \A i \in DOMAIN labels :
        /\ labels[i].y >= -fig.y_limit
        /\ labels[i].y <= fig.y_limit
        /\ labels[i].x <= fig.x_limit
        /\ labels[i].x >= (IF tool = "center" THEN -fig.x_limit ELSE -3 * Scale)

\* a node deep in a single-child chain was placed on the clamping bound
C5_Witness ==
    /\ pc = "done"
    /\ \E i, j \in DOMAIN labels :
          /\ IsChildLabel(i, j)
          /\ Len(Children(labels[j].node)) = 1
          /\ labels[i].depth_level >= 5
          /\ labels[i].x = fig.x_limit - Scale

\* C6: the canvas and the axis limits stay within their caps: radial width
\* <= 20, height <= 16, axis_limit in [8, 10]; horizontal width <= 24,
\* height <= 14, x_limit in [10, 12], y_limit in [6, 8]
C6_CanvasWithinCaps ==
    pc \in {"layout", "done"} =>
        IF tool = "center"
        THEN /\ fig.width <= 20 * Scale
             /\ fig.height <= 16 * Scale
             /\ fig.x_limit >= 8 * Scale /\ fig.x_limit <= 10 * Scale
             /\ fig.y_limit = fig.x_limit
        ELSE /\ fig.width <= 24 * Scale
             /\ fig.height <= 14 * Scale
             /\ fig.x_limit >= 10 * Scale /\ fig.x_limit <= 12 * Scale
             /\ fig.y_limit >= 6 * Scale /\ fig.y_limit <= 8 * Scale

\* a tree whose depth asks for more than the width cap and the axis cap
C6_Witness ==
    /\ pc = "done"
    /\ tool = "center"
    /\ CenterWidthUncapped(tree_data) > 20 * Scale
    /\ CalculateTreeDepth(tree_data) * 2 > 10
    /\ fig.width = 20 * Scale
    /\ fig.x_limit = 10 * Scale

\* C7 (as claimed): in the horizontal layout the children of a node whose next
\* X exceeds the usable range are labelled at the bound, and nothing below
\* them is laid out or labelled
CutOff(i) ==
    \E j \in DOMAIN labels :
        /\ IsChildLabel(i, j)
        /\ NextXUncapped(labels[j].x, labels[j].depth_level) > fig.x_limit - Scale

C7_TruncatedBelowCutOff ==
    tool = "horizontal" =>
        \A i \in DOMAIN labels :
            CutOff(i) =>
                /\ labels[i].x = fig.x_limit - Scale
                /\ Cardinality(LabelsOf(labels[i].node)) = 1
                /\ \A k \in DOMAIN labels : ~IsChildLabel(k, i)

\* C8: each layout terminates, and when it has, every node of the tree has
\* exactly one label, whose depth_level is 1 plus the node's distance from the
\* root
OneLabelPerNode ==
    /\ \A n \in TreeNodes : Cardinality(LabelsOf(n)) = 1
    /\ \A i \in DOMAIN labels :
          /\ labels[i].node \in TreeNodes
          /\ labels[i].depth_level = 1 + DistanceFromRoot(labels[i].node)

ConnectorsOf(c) == {k \in DOMAIN connectors : connectors[k].child = c}

C9_OneConnectorPerEdge ==
    pc = "done" =>
        /\ Len(connectors) = Len(labels) - 1
        /\ \A c \in TreeNodes \ {tree_data} :
              /\ Cardinality(ConnectorsOf(c)) = 1
              /\ \A k \in ConnectorsOf(c) :
                    /\ \E i \in LabelsOf(c) :
                          connectors[k].x2 = labels[i].x /\ connectors[k].y2 = labels[i].y
                    /\ \E j \in LabelsOf(ParentOf(c)) :
                          connectors[k].x1 = labels[j].x /\ connectors[k].y1 = labels[j].y

\* C10 (as claimed): no two distinct nodes are drawn at the same position
C10_NoOverlap ==
    \A i, j \in DOMAIN labels :
        i # j => ~(labels[i].x = labels[j].x /\ labels[i].y = labels[j].y)

\* the child of the root whose subtree holds the non-root node n, as its
\* 0-based position among the root's children
RECURSIVE BranchOf(_)
BranchOf(n) == IF ParentOf(n) = tree_data THEN n ELSE BranchOf(ParentOf(n))

BranchIndex(n) ==
    (CHOOSE i \in 1..Len(Children(tree_data)) : Children(tree_data)[i] = BranchOf(n)) - 1

\* C14: the root is drawn in '#333333'; every node in the subtree of the i-th
\* child of the root, and every connector leading into such a node, has the
\* colour palette[i mod 12]; the 12 palette colours are pairwise distinct
C14_BranchColorInherited ==
    /\ \A i \in DOMAIN labels :
          labels[i].color =
              IF labels[i].node = tree_data THEN "#333333"
              ELSE branch_colors[(BranchIndex(labels[i].node) % 12) + 1]
    /\ \A k \in DOMAIN connectors :
          connectors[k].color = branch_colors[(BranchIndex(connectors[k].child) % 12) + 1]
    /\ Len(branch_colors) = 12
    /\ \A a, b \in 1..12 : a # b => branch_colors[a] # branch_colors[b]

\* a finished layout with 13 branches: the 13th branch and its nested node
\* share the colour of the first branch, the 2nd to 12th have other colours
C14_Witness ==
    /\ pc = "done"
    /\ Len(Children(tree_data)) >= 13
    /\ \E i, j, k \in DOMAIN labels :
          /\ labels[i].node = Children(tree_data)[13]
          /\ labels[j].node = Children(tree_data)[1]
          /\ IsChildLabel(k, i)
          /\ labels[i].color = labels[j].color
          /\ labels[k].color = labels[j].color
    /\ \E k \in DOMAIN connectors :
          /\ BranchIndex(connectors[k].child) = 12
          /\ connectors[k].child # Children(tree_data)[13]
          /\ connectors[k].color = branch_colors[1]

\* depth_level of the call that drew the parent end of connector k
ParentDepth(k) ==
    LET p == ParentOf(connectors[k].child)
    IN  labels[CHOOSE j \in DOMAIN labels : labels[j].node = p].depth_level

\* the width the claim gives for a parent at depth d
ClaimedWidth(d) ==
    IF tool = "center"
    THEN Max2(3 * Scale - (d * Scale) \div 2, Scale)
    ELSE Max2((5 * Scale) \div 2 - (d * Scale) \div 5, Scale)

\* C20: the width of a connector is max(3 - 0.5*depth, 1) in the radial and
\* max(2.5 - 0.2*depth, 1) in the horizontal layout, depth being the parent's;
\* it is never below 1 and the connector into a node is never wider than the
\* connector into its parent
C20_WidthByParentDepth ==
    /\ \A k \in DOMAIN connectors :
          /\ connectors[k].linewidth = ClaimedWidth(ParentDepth(k))
          /\ connectors[k].linewidth >= Scale
    /\ \A k1, k2 \in DOMAIN connectors :
          ParentDepth(k1) <= ParentDepth(k2) =>
              connectors[k1].linewidth >= connectors[k2].linewidth

\* a plotted connector deep enough for the floor of 1 to apply
C20_Witness ==
    /\ pc = "done"
    /\ \E k \in DOMAIN connectors :
          /\ ParentDepth(k) >= (IF tool = "center" THEN 5 ELSE 8)
          /\ connectors[k].linewidth = Scale
    /\ \E k \in DOMAIN connectors : connectors[k].linewidth > 2 * Scale

\* C21: in the radial layout the angular budget of a call at depth >= 2 is 0
\* for a leaf and min(pi/3, parent's budget / parent's child count) for a node
\* with children; so it is at most pi/3, at most the parent's budget divided
\* by the parent's child count (up to rounding), and never above the
\* parent's budget
C21_AngularBudgetShrinks ==
    tool = "center" =>
        \A i \in 2..Len(frames) :
            LET budget == frames[i].angle_range
                parent == frames[i - 1].angle_range
                count  == Len(Children(frames[i - 1].node))
            IN  /\ count >= 1
                /\ Children(frames[i].node) = <<>> => budget = 0
                /\ Children(frames[i].node) # <<>> =>
                       budget = Min2((2 * Pi + 3) \div 6, (2 * parent + count) \div (2 * count))
                /\ budget >= 0
                /\ 3 * budget <= Pi + 1
                /\ 2 * count * budget <= 2 * parent + count
                /\ budget <= parent

\* a node at depth >= 3 with children whose budget is its parent's budget
\* split between the parent's children, less than pi/3
C21_Witness ==
    /\ tool = "center"
    /\ \E i \in 2..Len(frames) :
          /\ frames[i].depth_level >= 3
          /\ Len(Children(frames[i - 1].node)) >= 2
          /\ frames[i].angle_range > 0
          /\ 3 * frames[i].angle_range < Pi - 3

\* C22 (as claimed): in the horizontal layout the available height handed to
\* a child of a node with two or more children is at most the vertical
\* spacing between adjacent siblings, min(available height / child count, 3)
C22_ChildBandWithinSpacing ==
    tool = "horizontal" =>
        \A i \in 2..Len(frames) :
            LET count   == Len(Children(frames[i - 1].node))
                height  == frames[i - 1].available_height
                spacing == Min2((2 * height + count) \div (2 * count), 3 * Scale)
            IN  count >= 2 => frames[i].available_height <= spacing

Min(S) == CHOOSE x \in S : \A y \in S : x <= y

\* the Y positions at which the nodes below n were labelled
DescendantYs(n) ==
    {labels[j].y : j \in {k \in DOMAIN labels :
                             labels[k].node \in Range(GetAllNodes(n)) \ {n}}}

\* a call of the horizontal layout that has laid out all its children and is
\* about to return
AboutToReturn(i) ==
    /\ i = Len(frames)
    /\ frames[i].stage = "loop"
    /\ frames[i].i = Len(Children(frames[i].node))

\* C23 (as claimed): in the horizontal layout the Y a node with children
\* reports to its parent is the midpoint of the smallest and the largest Y
\* used by its descendants
C23_ReportsSubtreeMidpoint ==
    tool = "horizontal" =>
        \A i \in DOMAIN frames :
            AboutToReturn(i) =>
                LET ys == DescendantYs(frames[i].node)
                IN  ReturnedY(frames[i]) = RDiv(Min(ys) + Max(ys), 2)

\* C24: in the radial layout the radius that places the children of a node is
\* the cap 0.3 * axis_limit for every node: the uncapped value
\* 3.0 + 0.3 * depth + 0.05 * child count is larger than the cap because
\* axis_limit is at most 10, so every child sits at that distance from its
\* parent (before the clamp to the axes) whatever the depth and child count
C24_RadiusIsCap ==
    tool = "center" =>
        \A i \in 2..Len(frames) :
            LET p     == frames[i - 1]
                count == Len(Children(p.node))
                cap   == Frac(fig.x_limit, 3, 10)
                angle == ChildAngle(p.depth_level, count, p.parent_angle,
                                    p.angle_range, p.i - 1)
            IN  /\ fig.x_limit <= 10 * Scale
                /\ RadiusUncapped(p.depth_level, count) > cap
                /\ Radius(p.depth_level, count, fig.x_limit) = cap
                /\ frames[i].x = ClampToAxis(p.x + Mul(cap, Cos(angle)), fig.x_limit)
                /\ frames[i].y = ClampToAxis(p.y + Mul(cap, Sin(angle)), fig.x_limit)

\* children placed from two nodes of different depth and child count
C24_Witness ==
    /\ tool = "center"
    /\ Len(frames) >= 3
    /\ Len(Children(frames[1].node)) > Len(Children(frames[2].node))
    /\ frames[3].x # frames[2].x

----------------------------------------------------------------------------
(* Properties of the tool call *)

\* C11: the temporary directory and the PNG in it exist only inside the with
\* block of the invocation that created them: they are gone after the success
\* text, after the failure text, after an exception and after the consumer
\* stopped iterating, and the PNG never exists without its directory
C11_TempDirScoped ==
    /\ temp_files # {} => pc \in WithPcs
    /\ pc \in {"returned", "closed", "yield_error"} => temp_files = {}
    /\ TempOutputPath \in temp_files => TempDir \in temp_files
    /\ pc \in WithPcs => TempDir \in temp_files

\* the consumer stopped right after the blob: the file had been written
C11_Witness ==
    /\ pc = "closed"
    /\ messages = <<"text_progress", "blob">>
    /\ temp_files = {}

\* C12 (as claimed): when calls run concurrently, the image each returns holds
\* exactly the labels and connectors of its own input, and the figure each
\* closes is its own
C12_NoSharedFigure ==
    \A t \in DOMAIN threads :
        threads[t].pc = "returned" =>
            /\ output_files[t] = OwnArtists(t)
            /\ threads[t].closed = {t}

IsPrefix(s, t) == Len(s) <= Len(t) /\ SubSeq(t, 1, Len(s)) = s

\* the message sequences of a call that ran to its end on non-empty content
CompleteRuns ==
    {<<"text_progress", "blob", "text_success">>,
     <<"text_progress", "text_failed">>,
     <<"text_progress", "text_error">>}

\* C25: the message protocol of _invoke.  On empty content exactly one text
\* message is yielded, and nothing is parsed, drawn or created on disk.
\* Otherwise the progress text comes first; a blob is yielded only if the
\* generation returned True and the output file exists, its file name has only
\* word characters, '-', '_' and '.' and ends with '.png', and the success text
\* follows it; in every other case there is no blob and the call ends with a
\* failure text
C25_MessageProtocol ==
    /\ EmptyContent =>
          /\ pc \in {"start", "yield_missing", "returned", "closed"}
          /\ messages = IF pc = "start" THEN <<>> ELSE <<"text_missing">>
          /\ temp_files = {} /\ heap = <<>> /\ tree_data = 0
          /\ labels = <<>> /\ connectors = <<>>
    /\ ~EmptyContent =>
          /\ messages = <<>> <=> pc = "start"
          /\ \E run \in CompleteRuns : IsPrefix(messages, run)
          /\ pc = "returned" => messages \in CompleteRuns
          /\ pc = "yield_blob" => success /\ TempOutputPath \in temp_files
          /\ pc = "yield_failed" => ~(success /\ TempOutputPath \in temp_files)
          /\ "blob" \in Range(messages) =>
                /\ success
                /\ \A i \in DOMAIN display_filename : IsFilenameChar(display_filename[i])
                /\ EndsWith(display_filename, PngSuffix)

\* a call given the file name " my map " has returned after the blob and the
\* success text
C25_Witness ==
    /\ pc = "returned"
    /\ messages = <<"text_progress", "blob", "text_success">>
    /\ display_filename = <<"m", "y", "_", "m", "a", "p", ".", "p", "n", "g">>

\* a call on empty content has returned
C25_WitnessEmpty ==
    /\ EmptyContent
    /\ pc = "returned"
    /\ messages = <<"text_missing">>

----------------------------------------------------------------------------
(* Properties of repeated parses *)

C26_WitnessSameTool ==
    /\ pc = "parsed"
    /\ returned # <<>>
    /\ returned[1].tool = tool
    /\ last_header_level >= 2

====
